---- MODULE Spec2Model ----
(***************************************************************************)
(* The export/download flow of src/components/DownloadButton.svelte: the   *)
(* component state (currentOutput, outputData, status), the outputs        *)
(* mapping it shares with its parent, the conversion requests in flight,   *)
(* and the three handlers that change them: updateOutput up to its first   *)
(* await, the continuation of updateOutput once the conversion response    *)
(* has arrived, and the onNavigate callback.                               *)
(*                                                                         *)
(* Strings (base64 payloads, the kcl source text, URLs) are sequences of   *)
(* one-character strings; the empty sequence is the falsy value of the     *)
(* code ('' and undefined are not told apart: the code only tests          *)
(* truthiness).                                                            *)
(***************************************************************************)
EXTENDS Naturals, Sequences, FiniteSets, Bags, TLC

VARIABLES
    outputs,        \* prop outputs: key 'source.<f>' -> base64 payload
    code,           \* prop code: the kcl source text
    currentOutput,  \* let currentOutput
    outputData,     \* let outputData
    status,         \* let status
    inflight,       \* bag of the targets of the conversion requests awaiting their response
    cached,         \* history: the keys that have held a non-empty payload
    event,          \* history: what the last handler run did
    call            \* the last call of a server handler or of a derived value

vars == <<outputs, code, currentOutput, outputData, status, inflight, cached, event,
          call>>

----------------------------------------------------------------------------
(* Bounds of the model. *)

\* conversion requests that may be outstanding at once
MaxInFlight == 2
\* the selection events name gltf, kcl and the first MaxFormats other keys of
\* CADMIMETypes
MaxFormats == 2
\* the longest prompt, in characters, of the enumerated prompts
MaxPromptLen == 4

----------------------------------------------------------------------------
(* The format table. *)

\* Object.keys(CADMIMETypes), in the order of the object literal
CADFormatKeys == <<"fbx", "glb", "gltf", "obj", "ply", "stl", "step">>

CADFormat == {CADFormatKeys[i] : i \in 1..Len(CADFormatKeys)}

CADMIMETypes ==
    [f \in CADFormat |->
        CASE f = "fbx"  -> "application/octet-stream"
          [] f = "glb"  -> "model/gltf-binary"
          [] f = "gltf" -> "model/gltf+json"
          [] f = "obj"  -> "application/octet-stream"
          [] f = "ply"  -> "application/octet-stream"
          [] f = "stl"  -> "application/sla"
          [] f = "step" -> "application/STEP"]

\* the values of the select element's type: CADFormat | 'kcl'
OutputFormat == CADFormat \cup {"kcl"}

\* the formats the selection events of a run name
ConvertedKeys == SelectSeq(CADFormatKeys, LAMBDA f : f # "gltf")

SelectedFormats ==
    {ConvertedKeys[i] : i \in 1..(IF MaxFormats < Len(ConvertedKeys)
                                    THEN MaxFormats ELSE Len(ConvertedKeys))}
        \cup {"gltf", "kcl"}

\* $: availableFormats
availableFormats(c) ==
    CADFormatKeys \o (IF c # <<>> THEN <<"kcl">> ELSE <<>>)

----------------------------------------------------------------------------
(* Strings. *)

NoPayload == <<>>

\* the base64 payload the conversion service returns for format f
PayloadOf(f) ==
    <<f, "C">>

\* the payload the generation step produced
SourcePayload == <<"gltf", "S">>

\* the kcl source texts of a run: none, and a text with characters that
\* encodeURIComponent keeps ( s ' 2 0 ) and characters it escapes (space, %)
CodeTexts ==
    { <<>>, <<"s", "'", " ", "%", "2", "0">> }

\* encodeURIComponent of one character
EscapeChar(c) ==
    CASE c = " " -> <<"%", "2", "0">>
      [] c = "%" -> <<"%", "2", "5">>
      [] OTHER   -> <<c>>

RECURSIVE encodeURIComponent(_)
encodeURIComponent(s) ==
    IF s = <<>> THEN <<>>
    ELSE EscapeChar(Head(s)) \o encodeURIComponent(Tail(s))

\* the character a %XY escape stands for
UnescapeChar(x, y) ==
    CASE x = "2" /\ y = "0" -> " "
      [] x = "2" /\ y = "5" -> "%"
      [] OTHER              -> "?"

\* what a browser reads back from the data part of a 'data:...;charset=utf-8,' URL
RECURSIVE PercentDecode(_)
PercentDecode(s) ==
    IF s = <<>> THEN <<>>
    ELSE IF Head(s) = "%" /\ Len(s) >= 3
         THEN <<UnescapeChar(s[2], s[3])>> \o PercentDecode(SubSeq(s, 4, Len(s)))
         ELSE <<Head(s)>> \o PercentDecode(Tail(s))

----------------------------------------------------------------------------
(* The file name of a download: toKebabCase of $lib/toKebabCase is modelled by *)
(* the rule the specification gives for it.                                   *)

UpperCaseLetters ==
    <<"A", "B", "C", "D", "E", "F", "G", "H", "I", "J", "K", "L", "M", "N",
       "O", "P", "Q", "R", "S", "T", "U", "V", "W", "X", "Y", "Z">>

LowerCaseLetters ==
    <<"a", "b", "c", "d", "e", "f", "g", "h", "i", "j", "k", "l", "m", "n",
       "o", "p", "q", "r", "s", "t", "u", "v", "w", "x", "y", "z">>

Digits == {"0", "1", "2", "3", "4", "5", "6", "7", "8", "9"}

Whitespace == {" "}

\* String.prototype.toLowerCase on one character
LowerChar(c) ==
    IF \E i \in 1..26 : UpperCaseLetters[i] = c
    THEN LowerCaseLetters[CHOOSE i \in 1..26 : UpperCaseLetters[i] = c]
    ELSE c

toLowerCase(s) ==
    [i \in 1..Len(s) |-> LowerChar(s[i])]

IsAlphanumeric(c) ==
    c \in Digits \/ \E i \in 1..26 : LowerCaseLetters[i] = c \/ UpperCaseLetters[i] = c

\* characters that are neither letters, digits nor whitespace are dropped
StripOthers(s) ==
    SelectSeq(s, LAMBDA c : IsAlphanumeric(c) \/ c \in Whitespace)

RECURSIVE CollapseWhitespace(_)
\* every run of whitespace becomes one hyphen
CollapseWhitespace(s) ==
    IF s = <<>> THEN <<>>
    ELSE IF Head(s) \in Whitespace
    THEN IF Len(s) > 1 /\ s[2] \in Whitespace
         THEN CollapseWhitespace(Tail(s))
         ELSE <<"-">> \o CollapseWhitespace(Tail(s))
    ELSE <<Head(s)>> \o CollapseWhitespace(Tail(s))

RECURSIVE TrimHyphens(_)
\* leading and trailing hyphens are removed
TrimHyphens(s) ==
    IF s = <<>> THEN <<>>
    ELSE IF Head(s) = "-" THEN TrimHyphens(Tail(s))
    ELSE IF s[Len(s)] = "-" THEN TrimHyphens(SubSeq(s, 1, Len(s) - 1))
    ELSE s

toKebabCase(s) ==
    TrimHyphens(CollapseWhitespace(StripOthers(toLowerCase(s))))

\* the file name made of the prompt as it is
fileNameOfRawPrompt(p, co) ==
    p \o <<".", co>>

\* $: fileName = `${toKebabCase(prompt)}.${currentOutput}`
fileName(p, co) ==
    toKebabCase(p) \o <<".", co>>

\* the characters the enumerated prompts are made of
PromptChars == {"A", "b", "3", " ", "!", "-"}

RECURSIVE SeqsUpTo(_, _)
\* the sequences over S of length at most n
SeqsUpTo(S, n) ==
    IF n = 0 THEN {<<>>}
    ELSE LET shorter == SeqsUpTo(S, n - 1)
         IN  shorter \cup {Append(q, c) : q \in shorter, c \in S}

\* the prompt of the specification's example
ExamplePrompt ==
    <<"A", " ", "3", "2", "0", "m", "m", " ", 
      "v", "e", "n", "t", "e", "d", " ",
      "b", "r", "a", "k", "e", " ", "r", "o", "t", "o", "r", "!">>

Prompts ==
    SeqsUpTo(PromptChars, MaxPromptLen) \cup {ExamplePrompt}

----------------------------------------------------------------------------
(* Derived values of the component. *)

\* the content type with every table entry taken as the binary default
currentMimeTypeBinary(co) ==
    IF co = "kcl" THEN "text/plain" ELSE "application/octet-stream"

\* $: currentMimeType
currentMimeType(co) ==
    IF co = "kcl" THEN "text/plain" ELSE CADMIMETypes[co]

\* dataUrl with the source text put into the URL as it is
dataUrlUnescaped(co, c, od) ==
    IF co = "kcl"
    THEN [mime |-> "text/plain", enc |-> "charset=utf-8", data |-> c]
    ELSE [mime |-> currentMimeType(co), enc |-> "base64", data |-> od]

\* $: dataUrl, as the parts of `data:<mime>;<enc>,<data>`
dataUrl(co, c, od) ==
    IF co = "kcl"
    THEN [mime |-> "text/plain", enc |-> "charset=utf-8", data |-> encodeURIComponent(c)]
    ELSE [mime |-> currentMimeType(co), enc |-> "base64", data |-> od]

\* the text a data URL carries, as the browser reads it back
DataUrlContent(url) ==
    IF url.enc = "charset=utf-8" THEN PercentDecode(url.data) ELSE url.data

----------------------------------------------------------------------------
(* The conversion request and the responses it may receive. *)

\* base64ToBlob(outputs['source.gltf']): the decoded bytes, as an octet-stream blob
base64ToBlob(b) ==
    [type |-> "application/octet-stream", decoded |-> b]

\* whether base64ToBlob may throw: atob of a missing payload is not defined by this
\* repository's sources, so both outcomes are kept
base64ToBlobThrows(b) ==
    IF b = NoPayload THEN BOOLEAN ELSE {FALSE}

\* fetch(endpoints.localConvert(currentOutput), {method: 'POST', ..., body})
ConvertRequest(o, co) ==
    [target |-> co, body |-> base64ToBlob(o["gltf"])]

\* HTTP statuses the proxy may mirror in statusCode
StatusCodes == {201, 404}

NoResponse ==
    [rejected |-> FALSE, ok |-> FALSE, json |-> "none",
     hasStatusCode |-> FALSE, statusCode |-> 0, hasOutputs |-> FALSE, payload |-> NoPayload]

\* the outcomes of `await fetch(...)` and `await response.json()` for the request that
\* names `target`
Responses(target) ==
    \* the fetch rejects (network error)
    {[NoResponse EXCEPT !.rejected = TRUE]}
    \* the body is no JSON (an HTML error page, a truncated body)
    \cup {[NoResponse EXCEPT !.ok = k, !.json = "invalid"] : k \in BOOLEAN}
    \* the body is the JSON null
    \cup {[NoResponse EXCEPT !.ok = TRUE, !.json = "null"]}
    \* an error body {message}: no statusCode, no outputs
    \cup {[NoResponse EXCEPT !.ok = k, !.json = "object"] : k \in BOOLEAN}
    \* a relayed answer without outputs
    \cup {[NoResponse EXCEPT !.ok = TRUE, !.json = "object", !.hasStatusCode = TRUE,
                             !.statusCode = s] : s \in StatusCodes}
    \* a relayed answer with outputs: the target's key empty, or holding the payload
    \cup {[NoResponse EXCEPT !.ok = TRUE, !.json = "object", !.hasStatusCode = TRUE,
                             !.statusCode = 201, !.hasOutputs = TRUE, !.payload = p] :
            p \in {PayloadOf(target), NoPayload}}

\* responseData.outputs[`source.${key}`]: the service answers with the target's key only
ResponseOutput(target, resp, key) ==
    IF key = target THEN resp.payload ELSE NoPayload

RECURSIVE FirstDigit(_)
\* the first character of n.toString()
FirstDigit(n) ==
    IF n < 10 THEN n ELSE FirstDigit(n \div 10)

\* `await fetch` or `await response.json()` throws
AwaitThrows(resp) ==
    resp.rejected \/ resp.json = "invalid"

\* !response.ok || !responseData, the operands evaluated before statusCode is read
NotOkOrNoData(resp) ==
    ~resp.ok \/ resp.json = "null"

\* !responseData.statusCode.toString().startsWith('2')
StatusCodeFails(resp) ==
    FirstDigit(resp.statusCode) # 2

----------------------------------------------------------------------------
(* The handlers. *)

\* the cache hit answered with the canonical source payload
CachedPayloadOfSource(o, co) ==
    o["gltf"]

\* outputData = outputs[`source.${currentOutput}`] of the cache branch
CachedPayload(o, co) ==
    o[co]

\* the cache test with its condition inverted
IsCachedInverted(o, co) ==
    o[co] = NoPayload

\* if (outputs[`source.${currentOutput}`])
IsCached(o, co) ==
    o[co] # NoPayload

\* status = code ? 'ready' : 'failed'
KclStatus(c) ==
    IF c # <<>> THEN "ready" ELSE "failed"

\* the status after the payload has been looked at, failed whatever it is
DataStatusFailed(od) ==
    "failed"

\* status = outputData ? 'ready' : 'failed'
DataStatus(od) ==
    IF od # NoPayload THEN "ready" ELSE "failed"

\* {#if status == 'ready'} <a href={dataUrl} ... bind:this={link}>: the anchor as
\* it is rendered in the current state, none when status is not ready
RenderedAnchor ==
    IF status = "ready" THEN {dataUrl(currentOutput, code, outputData)} ELSE {}

\* link.click() without the tick: the anchor is the one rendered before the
\* handler's assignments
LinkClickBeforeTick(anchor, co, c, od) ==
    anchor

\* await tick(); link.click(): tick re-renders the anchor from the state just
\* assigned (status ready, the new currentOutput and outputData) before the click;
\* `anchor` is the anchor rendered before the handler ran
LinkClick(anchor, co, c, od) ==
    {dataUrl(co, c, od)}

\* no server handler and no derived value has been called
NoCall ==
    [fn |-> "none"]

NoEvent ==
    [kind |-> "init", fmt |-> "none", issued |-> {}, resp |-> NoResponse,
     clicks |-> {}, threw |-> FALSE]

EverCached(c, o) ==
    c \cup {k \in DOMAIN o : o[k] # NoPayload}

Init ==
    /\ outputs = [k \in OutputFormat |-> IF k = "gltf" THEN SourcePayload ELSE NoPayload]
    /\ code \in CodeTexts
    /\ currentOutput = "gltf"
    /\ outputData = outputs["gltf"]
    /\ status = "ready"
    /\ inflight = EmptyBag
    /\ cached = {"gltf"}
    /\ event = NoEvent
    /\ call = NoCall

\* updateOutput(e) with e.currentTarget.value = v, up to its return or its first
\* await of the network
updateOutput(v) ==
    \* on:change fires only when the element's value, bound to currentOutput, changes
    /\ v # currentOutput
    /\ currentOutput' = v
    /\ UNCHANGED <<outputs, code, cached, call>>
    /\ IF v = "kcl"
       THEN /\ status' = KclStatus(code)
            /\ UNCHANGED <<outputData, inflight>>
            /\ event' = [NoEvent EXCEPT !.kind = "select", !.fmt = v,
                            !.clicks = IF code # <<>>
                                       THEN LinkClick(RenderedAnchor, v, code, outputData) ELSE {}]
       ELSE IF IsCached(outputs, v)
       THEN /\ outputData' = CachedPayload(outputs, v)
            /\ status' = DataStatus(outputData')
            /\ UNCHANGED inflight
            /\ event' = [NoEvent EXCEPT !.kind = "select", !.fmt = v,
                            !.clicks = IF outputData' # NoPayload
                                       THEN LinkClick(RenderedAnchor, v, code, outputData') ELSE {}]
       ELSE \E throws \in base64ToBlobThrows(outputs["gltf"]) :
            /\ status' = "loading"
            /\ UNCHANGED outputData
            /\ IF throws
               THEN /\ UNCHANGED inflight
                    /\ event' = [NoEvent EXCEPT !.kind = "select", !.fmt = v, !.threw = TRUE]
               ELSE /\ BagCardinality(inflight) < MaxInFlight
                    /\ inflight' = inflight (+) SetToBag({ConvertRequest(outputs, v).target})
                    /\ event' = [NoEvent EXCEPT !.kind = "select", !.fmt = v,
                                    !.issued = {ConvertRequest(outputs, v)}]

\* the requests outstanding after a failed attempt has been sent again
StillOutstandingWithRetry(b, target, resp) ==
    IF resp.rejected \/ ~resp.ok THEN b ELSE b (-) SetToBag({target})

\* the requests outstanding once the fetch for `target` has settled: the rest of
\* updateOutput holds no second fetch
StillOutstanding(b, target, resp) ==
    b (-) SetToBag({target})

\* the slot the continuation writes: outputs[`source.${currentOutput}`] = ...
WrittenKey(target, co) ==
    co

\* the rest of updateOutput once the fetch of the request for `target` has settled
\* with resp
convertResponse(target, resp) ==
    /\ BagIn(target, inflight)
    /\ inflight' = StillOutstanding(inflight, target, resp)
    /\ UNCHANGED <<code, currentOutput, call>>
    /\ LET ev == [NoEvent EXCEPT !.kind = "response", !.fmt = target,
                                 !.resp = resp]
           key == WrittenKey(target, currentOutput)
       IN
       IF AwaitThrows(resp)
       THEN /\ UNCHANGED <<outputs, outputData, status, cached>>
            /\ event' = [ev EXCEPT !.threw = TRUE]
       ELSE IF NotOkOrNoData(resp)
       THEN /\ status' = "failed"
            /\ UNCHANGED <<outputs, outputData, cached>>
            /\ event' = ev
       ELSE IF ~resp.hasStatusCode
       THEN /\ UNCHANGED <<outputs, outputData, status, cached>>
            /\ event' = [ev EXCEPT !.threw = TRUE]
       ELSE IF StatusCodeFails(resp)
       THEN /\ status' = "failed"
            /\ UNCHANGED <<outputs, outputData, cached>>
            /\ event' = ev
       ELSE IF ~resp.hasOutputs
       THEN /\ UNCHANGED <<outputs, outputData, status, cached>>
            /\ event' = [ev EXCEPT !.threw = TRUE]
       ELSE /\ outputs' = [outputs EXCEPT ![key] = ResponseOutput(target, resp, key)]
            /\ outputData' = outputs'[key]
            /\ status' = DataStatus(outputData')
            /\ cached' = EverCached(cached, outputs')
            /\ event' = [ev EXCEPT
                            !.clicks = IF outputData' # NoPayload
                                       THEN LinkClick(RenderedAnchor, currentOutput, code, outputData')
                                       ELSE {}]

\* a navigation that leaves the selected format as it is
onNavigateKeepsFormat ==
    /\ event' = [NoEvent EXCEPT !.kind = "navigate"]
    /\ UNCHANGED <<outputs, code, currentOutput, outputData, status, inflight, cached,
                   call>>

\* a navigation that resets the whole component and drops the requests in flight
onNavigateResetsAll ==
    /\ currentOutput' = "gltf"
    /\ outputData' = outputs["gltf"]
    /\ status' = "ready"
    /\ inflight' = EmptyBag
    /\ event' = [NoEvent EXCEPT !.kind = "navigate"]
    /\ UNCHANGED <<outputs, code, cached, call>>

\* onNavigate(() => { currentOutput = 'gltf' })
onNavigate ==
    /\ currentOutput' = "gltf"
    /\ event' = [NoEvent EXCEPT !.kind = "navigate"]
    /\ UNCHANGED <<outputs, code, outputData, status, inflight, cached, call>>

Next ==
    \/ onNavigate
    \/ \E v \in SelectedFormats : updateOutput(v)
    \/ \E target \in BagToSet(inflight) : \E resp \in Responses(target) :
            convertResponse(target, resp)

Spec == Init /\ [][Next]_vars

\* the fetch of an outstanding request settles: resolved with some response, or
\* rejected
fetchSettles ==
    \E target \in BagToSet(inflight) : \E resp \in Responses(target) :
        convertResponse(target, resp)

\* the component with the network answering: no fetch stays pending forever
SpecFair == Spec /\ WF_vars(fetchSettles)

----------------------------------------------------------------------------
(* The conversion proxy, src/routes/api/convert/[output_format]/+server.ts.   *)
(* A request to it is a record of what the handler reads: env.PROD, the     *)
(* session cookie, env.VITE_API_TOKEN, the body text, params.output_format  *)
(* ("" when absent) and what the upstream service would answer.             *)

\* a missing cookie, environment variable or path parameter
None == ""

\* the answers of the upstream conversion service to a request for format f: the
\* fetch rejects; a body that is no JSON; a JSON object with or without outputs
\* and with or without a field named statusCode of its own
UpstreamAnswers(f) ==
    {[rejected |-> TRUE, status |-> 0, json |-> "none", hasStatusCode |-> FALSE,
      statusCode |-> 0, hasOutputs |-> FALSE, payload |-> NoPayload]}
    \cup {[rejected |-> FALSE, status |-> 502, json |-> "invalid", hasStatusCode |-> FALSE,
           statusCode |-> 0, hasOutputs |-> FALSE, payload |-> NoPayload]}
    \cup {[rejected |-> FALSE, status |-> st, json |-> "object", hasStatusCode |-> h,
           statusCode |-> IF h THEN 200 ELSE 0, hasOutputs |-> o # "none",
           payload |-> IF o = "payload" THEN PayloadOf(f) ELSE NoPayload] :
            st \in {201, 500}, h \in BOOLEAN, o \in {"none", "empty", "payload"}}

\* the requests the proxy may receive
ConvertCalls ==
    {[prod |-> p, cookie |-> c, apiToken |-> t, body |-> b, output_format |-> f,
      upstream |-> u] :
        p \in BOOLEAN, c \in {None, "cookie-token"}, t \in {None, "env-token"},
        b \in {<<>>, SourcePayload},
        f \in {None, "fbx", "gltf", "step", "kcl", "dxf"},
        u \in UpstreamAnswers("fbx")}

\* the credential taken from the configured token wherever one is configured
ProxyTokenFallbackFirst(rq) ==
    IF rq.apiToken # None THEN rq.apiToken ELSE rq.cookie

\* const token = env.PROD ? cookies.get(AUTH_COOKIE_NAME) : env.VITE_API_TOKEN
ProxyToken(rq) ==
    IF rq.prod THEN rq.cookie ELSE rq.apiToken

\* the format check accepting every value the select element offers
IsValidFormatOrKcl(f) ==
    f \in OutputFormat

\* Object.keys(CADMIMETypes).some((mimeType) => params.output_format === mimeType)
IsValidFormat(f) ==
    \E i \in 1..Len(CADFormatKeys) : CADFormatKeys[i] = f

\* throw error(status, message): no upstream call has been made
ProxyError(st, msg) ==
    [status |-> st, message |-> msg, hasStatusCode |-> FALSE, statusCode |-> 0,
     hasOutputs |-> FALSE, payload |-> NoPayload, upstream |-> {}]

\* fetch(endpoints.convert(params.output_format), {method, headers, body})
UpstreamRequest(rq) ==
    [format |-> rq.output_format,
     contentType |-> "application/octect-stream",
     authorization |-> <<"Bearer", ProxyToken(rq)>>,
     body |-> rq.body]

\* { statusCode: response.status, ...data }: a statusCode field of data, spread
\* after it, replaces response.status
RelayedStatusCode(up) ==
    IF up.hasStatusCode THEN up.statusCode ELSE up.status

\* the validation with the format checked before the body
ValidationErrorFormatFirst(rq) ==
    IF rq.output_format = None
    THEN <<ProxyError(422, "Please include the output format in the URL.")>>
    ELSE IF ~IsValidFormat(rq.output_format)
    THEN <<ProxyError(422, "Invalid output format.")>>
    ELSE IF rq.body = <<>>
    THEN <<ProxyError(422, "Please include the model as your fetch request body.")>>
    ELSE <<>>

\* the validation without the check of the body
ValidationErrorNoBodyCheck(rq) ==
    IF rq.output_format = None
    THEN <<ProxyError(422, "Please include the output format in the URL.")>>
    ELSE IF ~IsValidFormat(rq.output_format)
    THEN <<ProxyError(422, "Invalid output format.")>>
    ELSE <<>>

\* the checks of lines 18-22 in their order: the error thrown, if any
ValidationError(rq) ==
    IF rq.body = <<>>
    THEN <<ProxyError(422, "Please include the model as your fetch request body.")>>
    ELSE IF rq.output_format = None
    THEN <<ProxyError(422, "Please include the output format in the URL.")>>
    ELSE IF ~IsValidFormat(rq.output_format)
    THEN <<ProxyError(422, "Invalid output format.")>>
    ELSE <<>>

\* export const POST: the reply to request rq and the upstream requests made
POST(rq) ==
    IF ProxyToken(rq) = None
    THEN ProxyError(401, "You must be logged in to use this API.")
    ELSE IF ValidationError(rq) # <<>>
    THEN ValidationError(rq)[1]
    ELSE IF rq.upstream.rejected \/ rq.upstream.json = "invalid"
    \* await fetch or await response.json() throws: an unexpected error
    THEN [ProxyError(500, "Internal Error") EXCEPT !.upstream = {UpstreamRequest(rq)}]
    ELSE [status |-> 200, message |-> "",
          hasStatusCode |-> TRUE, statusCode |-> RelayedStatusCode(rq.upstream),
          hasOutputs |-> rq.upstream.hasOutputs, payload |-> rq.upstream.payload,
          upstream |-> {UpstreamRequest(rq)}]

\* the reply as the fetch of the client receives it, an error answered with a
\* page that is no JSON
ClientResponseErrorPage(reply) ==
    IF reply.status = 200
    THEN [rejected |-> FALSE, ok |-> TRUE, json |-> "object",
          hasStatusCode |-> reply.hasStatusCode, statusCode |-> reply.statusCode,
          hasOutputs |-> reply.hasOutputs, payload |-> reply.payload]
    ELSE [NoResponse EXCEPT !.ok = FALSE, !.json = "invalid"]

\* the reply as the fetch of the client receives it: json(...) is a 200 with the
\* object as body; error(status, message) is that status with the JSON body
\* {message}
ClientResponse(reply) ==
    IF reply.status = 200
    THEN [rejected |-> FALSE, ok |-> TRUE, json |-> "object",
          hasStatusCode |-> reply.hasStatusCode, statusCode |-> reply.statusCode,
          hasOutputs |-> reply.hasOutputs, payload |-> reply.payload]
    ELSE [NoResponse EXCEPT !.ok = FALSE, !.json = "object"]

\* one request handled by the conversion proxy
CallConvert ==
    /\ call.fn = "none"
    /\ \E rq \in ConvertCalls : call' = [fn |-> "convert", rq |-> rq, reply |-> POST(rq)]
    /\ UNCHANGED <<outputs, code, currentOutput, outputData, status, inflight, cached,
                   event>>

\* the content type derived for one value of currentOutput
CallMimeType ==
    /\ call.fn = "none"
    /\ \E f \in OutputFormat :
          call' = [fn |-> "currentMimeType", currentOutput |-> f,
                   value |-> currentMimeType(f)]
    /\ UNCHANGED <<outputs, code, currentOutput, outputData, status, inflight, cached,
                   event>>

\* the file name derived for one prompt and one value of currentOutput
CallFileName ==
    /\ call.fn = "none"
    /\ \E p \in Prompts, f \in {"stl", "kcl"} :
          call' = [fn |-> "fileName", prompt |-> p, currentOutput |-> f,
                   value |-> fileName(p, f)]
    /\ UNCHANGED <<outputs, code, currentOutput, outputData, status, inflight, cached,
                   event>>

----------------------------------------------------------------------------
(* The view proxy, the second server module (src/unnamed/part_001): its POST  *)
(* handler and the statement that follows it at the top level of the module. *)

\* the answers of the upstream service to a view request: the fetch rejects; a
\* body that is no JSON; a JSON body with some status
ViewUpstreamAnswers ==
    {[rejected |-> TRUE, status |-> 0, json |-> "none", data |-> <<>>]}
    \cup {[rejected |-> FALSE, status |-> 502, json |-> "invalid", data |-> <<>>]}
    \cup {[rejected |-> FALSE, status |-> st, json |-> "object", data |-> d] :
            st \in {200, 404}, d \in {<<"model">>, <<"error">>}}

\* the requests the view proxy may receive: env.MODE, the cookie, the configured
\* token, the request body (no JSON; null; an object without id, with an empty
\* id, with an id) and what the upstream would answer
ViewCalls ==
    {[mode |-> m, cookie |-> c, apiToken |-> t, json |-> b[1], id |-> b[2],
      upstream |-> u] :
        m \in {"production", "development"},
        c \in {None, "cookie-token"}, t \in {None, "env-token"},
        b \in {<<"invalid", None>>, <<"null", None>>, <<"object", None>>,
               <<"object", "m1">>},
        u \in ViewUpstreamAnswers}

\* const token = env.MODE === 'production' ? cookies.get(AUTH_COOKIE_NAME)
\*                                         : env.VITE_API_TOKEN
ViewToken(rq) ==
    IF rq.mode = "production" THEN rq.cookie ELSE rq.apiToken

\* an error answer of the view proxy: no upstream request has been made
ViewError(st, msg) ==
    [status |-> st, message |-> msg, hasBody |-> FALSE, upstreamStatus |-> 0,
     data |-> <<>>, upstream |-> {}]

\* fetch(endpoints.view(body?.id), { headers: { Authorization } })
ViewUpstreamRequest(rq) ==
    [id |-> rq.id, authorization |-> <<"Bearer", ViewToken(rq)>>]

\* the POST handler of the view proxy, lines 11-31
ViewHandler(rq) ==
    \* await request.json() throws on a body that is no JSON
    IF rq.json = "invalid" THEN ViewError(500, "Internal Error")
    \* if (!body?.id)
    ELSE IF rq.json = "null" \/ rq.id = None
    THEN ViewError(422, "Please include a model ID under the \"id\" key.")
    ELSE IF ViewToken(rq) = None
    THEN ViewError(401, "You must be logged in to use this API.")
    ELSE IF rq.upstream.rejected \/ rq.upstream.json = "invalid"
    THEN [ViewError(500, "Internal Error") EXCEPT !.upstream = {ViewUpstreamRequest(rq)}]
    \* json({ status: response.status, body: data })
    ELSE [status |-> 200, message |-> "", hasBody |-> TRUE,
          upstreamStatus |-> rq.upstream.status, data |-> rq.upstream.data,
          upstream |-> {ViewUpstreamRequest(rq)}]

\* the names bound at the top level of the module: its imports and its exports
ViewModuleScope ==
    {"AUTH_COOKIE_NAME", "endpoints", "error", "json", "env", "POST", "console"}

\* the names the top-level statement of line 32 reads:
\* console.log("TOKEN:", token)
ViewTopLevelReads ==
    {"console", "token"}

\* the evaluation of the module completes if every name its top-level statements
\* read is bound; a read of an unbound name throws a ReferenceError
ViewModuleEvaluates ==
    ViewTopLevelReads \subseteq ViewModuleScope

\* the answer to a request of the route: the module is imported, then its
\* handler is called; a module whose evaluation throws has no handler and the
\* request ends as an unexpected error
ViewPOST(rq) ==
    IF ViewModuleEvaluates THEN ViewHandler(rq) ELSE ViewError(500, "Internal Error")

\* one request handled by the view proxy
CallView ==
    /\ call.fn = "none"
    /\ \E rq \in ViewCalls : call' = [fn |-> "view", rq |-> rq, reply |-> ViewPOST(rq)]
    /\ UNCHANGED <<outputs, code, currentOutput, outputData, status, inflight, cached,
                   event>>

NextCall ==
    \/ CallConvert
    \/ CallMimeType
    \/ CallFileName
    \/ CallView

\* the server handlers and the derived values: each behaviour applies one of them
\* to one input
SpecCall == Init /\ [][NextCall]_vars

----------------------------------------------------------------------------
(* Classes of responses the claims speak of. *)

\* a success on both layers that carries a payload under the target's key
SuccessWithPayload(resp) ==
    /\ ~resp.rejected /\ resp.ok /\ resp.json = "object"
    /\ resp.hasStatusCode /\ resp.statusCode \in 200..299
    /\ resp.hasOutputs /\ resp.payload # NoPayload

\* a failure response: a status that is no success, or a body that is no JSON
FailureResponse(resp) ==
    ~resp.rejected /\ (~resp.ok \/ resp.json = "invalid")

\* a failed conversion attempt: a failure response, or a fetch that rejects
FailedAttempt(resp) ==
    resp.rejected \/ FailureResponse(resp)

SelectOf(f) ==
    event.kind = "select" /\ event.fmt = f

----------------------------------------------------------------------------
(* The claims. *)

\* C1: a selection of a supported format whose outputs entry is present and
\* non-empty ends with status = ready and issues no conversion request.
C1_CachedSelectionIsReady ==
    \A f \in CADFormat :
        (SelectOf(f) /\ outputs[f] # NoPayload)
            => (status = "ready" /\ event.issued = {} /\ ~event.threw)

\* C1 witness: a converted format, cached by an earlier response while another
\* request is still outstanding, has been selected again and is ready.
C1_Witness ==
    /\ event.kind = "select" /\ event.fmt \in CADFormat \ {"gltf"}
    /\ outputs[event.fmt] # NoPayload
    /\ status = "ready" /\ event.issued = {}
    /\ inflight # EmptyBag

\* C2: a selection of a supported format that is absent from outputs issues
\* exactly one conversion request, whose target is that format and whose body is
\* the stored canonical-source payload.
C2_MissIssuesOneRequest ==
    \A f \in CADFormat :
        (SelectOf(f) /\ outputs[f] = NoPayload)
            => /\ outputs["gltf"] # NoPayload
               /\ event.issued = {[target |-> f, body |-> base64ToBlob(outputs["gltf"])]}

\* C3: after a success response with a payload under the key of the request's
\* format f, status = ready, outputs[f] is the returned payload and exactly one
\* download has been triggered.
C3_SuccessResponse ==
    (event.kind = "response" /\ SuccessWithPayload(event.resp))
        => /\ status = "ready"
           /\ outputs[event.fmt] = event.resp.payload
           /\ Cardinality(event.clicks) = 1

\* C4: a failure response (a status that is no success, or a malformed body) to
\* the request for f ends with status = failed and leaves outputs[f] as it was.
C4_FailureResponse ==
    [][(event'.kind = "response" /\ FailureResponse(event'.resp))
          => (status' = "failed" /\ outputs'[event'.fmt] = outputs[event'.fmt])]_vars

\* C5: a response whose request's format is no longer the selected format
\* changes status not at all and triggers no download.
C5_StalenessGuard ==
    [][(event'.kind = "response" /\ event'.fmt # currentOutput)
          => (status' = status /\ event'.clicks = {})]_vars

\* C6: every failed conversion attempt (a status that is no success, a body that
\* cannot be parsed, a fetch that rejects) ends with status = failed, and no
\* exception leaves updateOutput.
C6_FailuresAbsorbed ==
    (event.kind = "response" /\ FailedAttempt(event.resp))
        => (status = "failed" /\ ~event.threw)

\* C7: once a format has held a non-empty cached payload, selecting it issues no
\* conversion request.
C7_CachedOnceNeverRefetched ==
    \A f \in CADFormat :
        (SelectOf(f) /\ f \in cached) => event.issued = {}

\* C8: a selection of kcl issues no network call; without source text it ends
\* failed with no download; with source text it ends ready with one download of
\* exactly that text as text/plain.
C8_KclSelection ==
    SelectOf("kcl")
        => /\ event.issued = {}
           /\ code = <<>> => (status = "failed" /\ event.clicks = {})
           /\ code # <<>> =>
                /\ status = "ready"
                /\ Cardinality(event.clicks) = 1
                /\ \A url \in event.clicks :
                      url.mime = "text/plain" /\ DataUrlContent(url) = code

\* C8 witness: kcl has been selected with a source text that holds escaped
\* characters, while a conversion request is outstanding, and was downloaded.
C8_Witness ==
    /\ SelectOf("kcl") /\ code # <<>> /\ encodeURIComponent(code) # code
    /\ event.clicks # {} /\ inflight # EmptyBag

\* C8 witness of the other case: kcl has been selected with no source text.
C8_WitnessNoCode ==
    SelectOf("kcl") /\ code = <<>> /\ status = "failed"

\* C9: outputs always holds a non-empty canonical source (source.gltf) payload.
C9_CanonicalSourceKept ==
    outputs["gltf"] # NoPayload

\* C10: a slot of outputs changes only by the success response to the request for
\* that slot's format, only from empty, and to the returned payload.
C10_SingleWriterPerSlot ==
    [][\A k \in OutputFormat :
          outputs'[k] # outputs[k]
            => /\ event'.kind = "response" /\ event'.fmt = k
               /\ SuccessWithPayload(event'.resp)
               /\ outputs[k] = NoPayload
               /\ outputs'[k] = event'.resp.payload]_vars

----------------------------------------------------------------------------
(* Claims about the conversion proxy. *)

\* the reply to the call at hand and what the credential and validation checks
\* of the proxy look at
ConvertCalled == call.fn = "convert"

NoCredential(rq) ==
    IF rq.prod THEN rq.cookie = None ELSE rq.apiToken = None

NotASupportedKey(f) ==
    f \notin {"fbx", "glb", "gltf", "obj", "ply", "step", "stl"}

\* C11: the conversion proxy rejects a request before any upstream call: with 401
\* if no credential is available, and, a credential being available, with 422 if
\* the body is empty, the output_format parameter is missing or it is no key of
\* the format table.
C11_ProxyRejectsBeforeUpstream ==
    ConvertCalled =>
        /\ NoCredential(call.rq)
             => call.reply.status = 401 /\ call.reply.upstream = {}
        /\ (/\ ~NoCredential(call.rq)
            /\ \/ call.rq.body = <<>>
               \/ call.rq.output_format = None
               \/ NotASupportedKey(call.rq.output_format))
             => call.reply.status = 422 /\ call.reply.upstream = {}

\* C11 witness: a request with a credential and a supported format but an empty
\* body has been rejected.
C11_Witness ==
    /\ ConvertCalled /\ ~NoCredential(call.rq)
    /\ call.rq.body = <<>> /\ call.rq.output_format = "fbx"
    /\ call.reply.status = 422 /\ call.reply.upstream = {}

\* C12: whenever the proxy relays an upstream response, the statusCode field of
\* its JSON reply equals the upstream HTTP status, whatever the upstream body holds.
C12_StatusCodeMirrorsUpstream ==
    (ConvertCalled /\ call.reply.status = 200)
        => /\ call.reply.hasStatusCode
           /\ call.reply.statusCode = call.rq.upstream.status

----------------------------------------------------------------------------
(* Claims about the client, continued. *)

\* a received response with one of the two failure signals: a transport status
\* that is no success, or an embedded statusCode outside 200..299
FailureSignal(resp) ==
    /\ ~resp.rejected
    /\ \/ ~resp.ok
       \/ resp.json = "object" /\ resp.hasStatusCode /\ resp.statusCode \notin 200..299

\* C13: a response whose transport status is no success or whose embedded
\* statusCode is not 2xx ends the conversion with status = failed, writes nothing
\* to outputs and triggers no download.
C13_BothSignalsChecked ==
    [][(event'.kind = "response" /\ FailureSignal(event'.resp))
          => (status' = "failed" /\ outputs' = outputs /\ event'.clicks = {})]_vars

\* a response that parses and reports success on both layers but has no outputs
\* object, or an empty entry for the requested format
EmptyResult(resp) ==
    /\ ~resp.rejected /\ resp.ok /\ resp.json = "object"
    /\ resp.hasStatusCode /\ resp.statusCode \in 200..299
    /\ (~resp.hasOutputs \/ resp.payload = NoPayload)

\* C14: a response that reports success on both layers without a payload for the
\* requested format ends with status = failed, triggers no download and does not
\* make the format's cache entry usable.
C14_EmptyResultFails ==
    [][(event'.kind = "response" /\ EmptyResult(event'.resp))
          => /\ status' = "failed"
             /\ event'.clicks = {}
             /\ (outputs[event'.fmt] = NoPayload => outputs'[event'.fmt] = NoPayload)]_vars

\* C15: whenever a download is triggered, status is ready and the anchor that is
\* clicked carries the data URL of the selected format and of its latest payload:
\* the stored, non-empty outputs entry of a supported format, the source text of kcl.
C15_ClickAfterReadyAndTick ==
    event.clicks # {}
        => /\ status = "ready"
           /\ event.clicks = {dataUrl(currentOutput, code, outputData)}
           /\ currentOutput # "kcl"
                => outputData = outputs[currentOutput] /\ outputData # NoPayload
           /\ currentOutput = "kcl" => code # <<>>

\* C15 witness: the response to a conversion request has arrived while the
\* anchor was not rendered (status loading) and has triggered the download of
\* the converted payload.
C15_Witness ==
    /\ event.kind = "response" /\ event.fmt = currentOutput /\ currentOutput # "gltf"
    /\ event.clicks = {dataUrl(currentOutput, code, PayloadOf(currentOutput))}
    /\ status = "ready"

\* the requests for kcl that the proxy could receive from a logged-in client,
\* with an upstream that would answer them with a payload
KclCalls ==
    {[prod |-> p, cookie |-> "cookie-token", apiToken |-> "env-token",
      body |-> SourcePayload, output_format |-> "kcl",
      upstream |-> [rejected |-> FALSE, status |-> 201, json |-> "object",
                    hasStatusCode |-> FALSE, statusCode |-> 0, hasOutputs |-> TRUE,
                    payload |-> PayloadOf("kcl")]] : p \in BOOLEAN}

\* C16: kcl is among the selectable formats exactly if source code text was
\* supplied; no conversion request of the client names kcl as its target; and the
\* proxy rejects kcl as an invalid output format without an upstream call.
C16_KclNeverConverted ==
    /\ (\E i \in 1..Len(availableFormats(code)) : availableFormats(code)[i] = "kcl")
         <=> code # <<>>
    /\ \A rq \in event.issued : rq.target # "kcl"
    /\ ~BagIn("kcl", inflight)
    /\ \A rq \in KclCalls :
          LET reply == POST(rq)
          IN  /\ reply.status = 422 /\ reply.message = "Invalid output format."
              /\ reply.upstream = {}

\* C16 witness: kcl has been selected with a source text while a conversion
\* request of another format is outstanding; it was downloaded with no request.
C16_Witness ==
    /\ SelectOf("kcl") /\ code # <<>> /\ status = "ready"
    /\ event.issued = {} /\ event.clicks # {}
    /\ inflight # EmptyBag /\ ~BagIn("kcl", inflight)

----------------------------------------------------------------------------
(* Claims about the derived values of a download. *)

\* the table of formats and content types as the specification gives it
ContentTypeTable ==
    [f \in {"fbx", "obj", "ply", "glb", "gltf", "stl", "step", "kcl"} |->
        IF f \in {"fbx", "obj", "ply"} THEN "application/octet-stream"
        ELSE IF f = "glb" THEN "model/gltf-binary"
        ELSE IF f = "gltf" THEN "model/gltf+json"
        ELSE IF f = "stl" THEN "application/sla"
        ELSE IF f = "step" THEN "application/STEP"
        ELSE "text/plain"]

\* C17: the content type of a download is the table's entry for the selected
\* format, whatever the payload and the source text are: fbx, obj, ply ->
\* application/octet-stream; glb -> model/gltf-binary; gltf -> model/gltf+json;
\* stl -> application/sla; step -> application/STEP; kcl -> text/plain.
C17_ContentTypeTable ==
    call.fn = "currentMimeType"
        => /\ call.currentOutput \in DOMAIN ContentTypeTable
           /\ call.value = ContentTypeTable[call.currentOutput]
           /\ \A od \in {NoPayload, SourcePayload} :
                 dataUrl(call.currentOutput, code, od).mime
                    = ContentTypeTable[call.currentOutput]

\* C17 witness: the content type of a format whose type is not the default
\* binary one has been derived.
C17_Witness ==
    /\ call.fn = "currentMimeType" /\ call.currentOutput = "step"
    /\ call.value = "application/STEP"

\* the letters and digits of a prompt, lower-cased, in their order
LowerAlphanumerics(p) ==
    LET kept == SelectSeq(p, LAMBDA c : c \in Digits
                                  \/ \E i \in 1..26 : c \in {LowerCaseLetters[i],
                                                             UpperCaseLetters[i]})
    IN  [i \in 1..Len(kept) |->
            IF \E k \in 1..26 : UpperCaseLetters[k] = kept[i]
            THEN LowerCaseLetters[CHOOSE k \in 1..26 : UpperCaseLetters[k] = kept[i]]
            ELSE kept[i]]

\* the number of places of a prompt where whitespace ends and a letter or digit
\* follows, some letter or digit standing before the whitespace: the characters
\* dropped in between do not count
WordGaps(p) ==
    LET q == SelectSeq(p, LAMBDA c : c = " " \/ c \in Digits
                               \/ \E i \in 1..26 : c \in {LowerCaseLetters[i],
                                                          UpperCaseLetters[i]})
    IN  Cardinality({i \in 2..(Len(q) - 1) :
                        /\ q[i] = " " /\ q[i + 1] # " "
                        /\ \E j \in 1..(i - 1) : q[j] # " "})

\* C18: the file name is the prompt lower-cased, with the characters other than
\* letters and digits stripped, every whitespace run made a single hyphen and no
\* hyphen at either end, followed by '.' and the format; the prompt
\* "A 320mm vented brake rotor!" with stl gives a-320mm-vented-brake-rotor.stl.
C18_FileNameRule ==
    call.fn = "fileName"
        => LET name == call.value
               stem == SubSeq(name, 1, Len(name) - 2)
           IN  /\ Len(name) >= 2
               /\ name[Len(name) - 1] = "." /\ name[Len(name)] = call.currentOutput
               /\ SelectSeq(stem, LAMBDA c : c # "-") = LowerAlphanumerics(call.prompt)
               /\ Cardinality({i \in 1..Len(stem) : stem[i] = "-"}) = WordGaps(call.prompt)
               /\ \A i \in 1..Len(stem) :
                     stem[i] = "-" => /\ 1 < i /\ i < Len(stem)
                                      /\ stem[i + 1] # "-"
               /\ (call.prompt = ExamplePrompt /\ call.currentOutput = "stl")
                     => name = <<"a", "-", "3", "2", "0", "m", "m", "-",
                                 "v", "e", "n", "t", "e", "d", "-",
                                 "b", "r", "a", "k", "e", "-",
                                 "r", "o", "t", "o", "r", ".", "stl">>

\* C18 witness: the file name of the example has been derived.
C18_Witness ==
    /\ call.fn = "fileName" /\ call.prompt = ExamplePrompt /\ call.currentOutput = "stl"
    /\ Len(call.value) = 28

\* C18 witness of the collapsing: a prompt that holds a whitespace run between
\* a letter and a digit.
C18_WitnessWhitespaceRun ==
    /\ call.fn = "fileName" /\ call.prompt = <<"A", " ", " ", "3">>
    /\ call.value = <<"a", "-", "3", ".", call.currentOutput>>

\* C19: after every navigation the selected format is gltf, whatever the state
\* before it was, a conversion request in flight included.
C19_NavigationResetsFormat ==
    event.kind = "navigate" => currentOutput = "gltf"

\* C19 witness: a navigation has happened while the request for the format
\* selected before it was in flight and status was loading.
C19_Witness ==
    /\ event.kind = "navigate" /\ currentOutput = "gltf"
    /\ status = "loading" /\ BagIn("fbx", inflight) /\ outputs["fbx"] = NoPayload

\* C20: no format has two conversion requests outstanding at once.
C20_NoDoubleFetch ==
    \A f \in BagToSet(inflight) : CopiesIn(f, inflight) <= 1

----------------------------------------------------------------------------
(* Claims about the state machine of status. *)

\* C21: whenever status is loading with a conversion request in flight, status
\* eventually is ready or failed, whatever response arrives.
C21_LoadingEnds ==
    (status = "loading" /\ inflight # EmptyBag) ~> (status \in {"ready", "failed"})

\* C22: conversion requests are issued by selection events only, one per cache
\* miss: a response, failed ones included, and a navigation issue none, and a
\* response leaves one request fewer outstanding.
C22_NoAutomaticRetry ==
    [][/\ event'.kind \in {"response", "navigate"} => event'.issued = {}
       /\ event'.kind = "response"
            => BagCardinality(inflight') = BagCardinality(inflight) - 1
       /\ event'.kind = "navigate" => inflight' = inflight
       /\ event'.kind = "select"
            => /\ Cardinality(event'.issued) <= 1
               /\ BagCardinality(inflight') = BagCardinality(inflight)
                                                + Cardinality(event'.issued)
               /\ event'.issued # {}
                    => event'.fmt # "kcl" /\ outputs[event'.fmt] = NoPayload]_vars

\* C22 witness: a conversion has ended in failed by a response with an error
\* status, and no request is outstanding after it.
C22_Witness ==
    /\ event.kind = "response" /\ ~event.resp.rejected /\ ~event.resp.ok
    /\ event.resp.json = "object"
    /\ status = "failed" /\ inflight = EmptyBag /\ event.issued = {}

\* C23: from status = failed, a selection of a supported format that has no
\* cached payload (the failed one or another) enters loading and issues one fresh
\* request whose body is the canonical source payload; the failed attempt has
\* left no payload for its format.
C23_RetryFromScratch ==
    [][(/\ status = "failed"
        /\ event'.kind = "select" /\ event'.fmt # "kcl"
        /\ outputs[event'.fmt] = NoPayload)
          => /\ status' = "loading"
             /\ event'.issued = {[target |-> event'.fmt,
                                  body |-> base64ToBlob(SourcePayload)]}
             /\ outputs' = outputs]_vars

\* C24: whenever status is loading, a conversion request is in flight whose
\* target is the selected format.
C24_LoadingHasRequestForSelected ==
    status = "loading" => BagIn(currentOutput, inflight)

\* C25: whenever status is ready, a non-empty payload of the selected format is
\* available: its outputs entry for a supported format, the source text for kcl.
C25_ReadyHasPayload ==
    status = "ready"
        => IF currentOutput = "kcl" THEN code # <<>>
           ELSE outputs[currentOutput] # NoPayload

----------------------------------------------------------------------------
(* Claims about what the handlers leave unchanged. *)

\* C26: a selection of a supported format whose outputs entry is non-empty
\* leaves the whole outputs mapping as it is, makes the stored payload the
\* current one and issues nothing.
C26_CacheHitNoSideEffect ==
    [][(/\ event'.kind = "select" /\ event'.fmt # "kcl"
        /\ outputs[event'.fmt] # NoPayload)
          => /\ outputs' = outputs
             /\ outputData' = outputs[event'.fmt]
             /\ inflight' = inflight /\ event'.issued = {}]_vars

\* C26 witness: a converted format has been selected from the cache while the
\* payload shown before was another one.
C26_Witness ==
    /\ SelectOf("fbx") /\ outputs["fbx"] = PayloadOf("fbx")
    /\ outputData = PayloadOf("fbx") /\ outputs["gltf"] = SourcePayload
    /\ event.issued = {} /\ event.clicks # {}

----------------------------------------------------------------------------
(* Claims about the credential of the proxy. *)

\* C28: in production the bearer token is the session cookie and nothing else, a
\* request without cookie being answered 401 even with a fallback token
\* configured; outside production it is the configured fallback token.
C28_CredentialSource ==
    ConvertCalled =>
        /\ (call.rq.prod /\ call.rq.cookie = None)
              => call.reply.status = 401 /\ call.reply.upstream = {}
        /\ \A up \in call.reply.upstream :
              up.authorization
                 = <<"Bearer", IF call.rq.prod THEN call.rq.cookie ELSE call.rq.apiToken>>
        /\ (~call.rq.prod /\ call.rq.apiToken = None)
              => call.reply.status = 401 /\ call.reply.upstream = {}

\* C28 witness: a request in production without cookie, a fallback token being
\* configured and the request valid otherwise, has been answered 401.
C28_Witness ==
    /\ ConvertCalled /\ call.rq.prod /\ call.rq.cookie = None
    /\ call.rq.apiToken = "env-token"
    /\ call.rq.body # <<>> /\ call.rq.output_format = "fbx"
    /\ call.reply.status = 401 /\ call.reply.upstream = {}

\* C28 witness of the other environment: outside production the upstream
\* request carries the fallback token, a cookie being present.
C28_WitnessFallback ==
    /\ ConvertCalled /\ ~call.rq.prod /\ call.rq.cookie = "cookie-token"
    /\ \E up \in call.reply.upstream : up.authorization = <<"Bearer", "env-token">>

----------------------------------------------------------------------------
(* Claims about the client and the proxy together. *)

\* the requests of the client for fbx that reach the proxy when it has no
\* credential, with an upstream that would answer them with a payload
NoCredentialCalls ==
    {[prod |-> p, cookie |-> IF p THEN None ELSE "cookie-token",
      apiToken |-> IF p THEN "env-token" ELSE None,
      body |-> SourcePayload, output_format |-> "fbx",
      upstream |-> [rejected |-> FALSE, status |-> 201, json |-> "object",
                    hasStatusCode |-> FALSE, statusCode |-> 0, hasOutputs |-> TRUE,
                    payload |-> PayloadOf("fbx")]] : p \in BOOLEAN}

\* C27: a proxy without credential answers 401 without an upstream call, and the
\* client that receives this answer ends in status = failed, with outputs
\* unchanged and no download.
C27_AuthorizationFailure ==
    [][\A rq \in NoCredentialCalls :
          LET reply == POST(rq)
          IN  /\ reply.status = 401 /\ reply.upstream = {}
              /\ (event'.kind = "response" /\ event'.resp = ClientResponse(reply))
                    => /\ status' = "failed" /\ ~event'.threw
                       /\ outputs' = outputs /\ event'.clicks = {}]_vars

\* C27 witness: the answer of a proxy without credential has arrived for the
\* selected format, and the selection has ended in failed.
C27_Witness ==
    /\ event.kind = "response" /\ event.fmt = "fbx" /\ currentOutput = "fbx"
    /\ \E rq \in NoCredentialCalls :
          POST(rq).status = 401 /\ event.resp = ClientResponse(POST(rq))
    /\ status = "failed" /\ outputs["fbx"] = NoPayload /\ event.clicks = {}

----------------------------------------------------------------------------
(* Claims about navigation and the payload shown. *)

\* C29: whenever status is ready with a supported format selected, the payload of
\* the data URL (outputData) is the payload stored for the selected format.
C29_PayloadOfSelectedFormat ==
    (status = "ready" /\ currentOutput # "kcl")
        => outputData = outputs[currentOutput]

\* C30: a navigation changes the selected format only: status, outputData and
\* outputs stay as they are and the requests in flight stay the same.
C30_NavigationFrame ==
    [][event'.kind = "navigate"
          => /\ status' = status /\ outputData' = outputData /\ outputs' = outputs
             /\ inflight' = inflight /\ code' = code]_vars

\* C30 witness: a navigation has happened with status loading and a request in
\* flight for the format selected before it, which is still in flight.
C30_Witness ==
    /\ event.kind = "navigate" /\ status = "loading"
    /\ inflight = SetToBag({"glb"}) /\ outputData = SourcePayload

----------------------------------------------------------------------------
(* Claims about the number of downloads. *)

\* C31: a run of updateOutput triggers at most one download, and only when it
\* has ended with status = ready: none while its request is outstanding (status
\* loading), none when it has ended in failed or with an exception.
C31_OneDownloadPerReadySelection ==
    /\ Cardinality(event.clicks) <= 1
    /\ event.clicks # {}
         => status = "ready" /\ event.kind \in {"select", "response"} /\ ~event.threw
    /\ (event.kind = "select" /\ event.issued # {})
         => event.clicks = {} /\ status = "loading"
    /\ (event.kind \in {"select", "response"} /\ status \in {"failed", "loading"})
         => event.clicks = {}

\* C31 witness: the response of one selection has triggered its download while
\* the request of another selection is still outstanding.
C31_Witness ==
    /\ event.kind = "response" /\ status = "ready"
    /\ Cardinality(event.clicks) = 1 /\ inflight # EmptyBag

\* C31 witness of the other case: a selection has ended in failed by a response
\* without payload and has triggered no download.
C31_WitnessFailed ==
    /\ event.kind = "response" /\ event.resp.ok /\ event.resp.hasOutputs
    /\ status = "failed" /\ event.clicks = {}

----------------------------------------------------------------------------
(* Claims about the proxies. *)

\* a request that passes the credential check and the validation of the proxy
PassesChecks(rq) ==
    /\ ~NoCredential(rq)
    /\ rq.body # <<>> /\ rq.output_format # None /\ ~NotASupportedKey(rq.output_format)

\* C32: for every request that passes the checks the proxy issues exactly one
\* upstream request, for the format of the path parameter, with the received
\* body and the bearer token, and answers with transport success and a JSON
\* body whatever the status and the body of the upstream's answer are.
C32_ForwardsOnceAnswersJson ==
    (ConvertCalled /\ PassesChecks(call.rq))
        => /\ Cardinality(call.reply.upstream) = 1
           /\ \A up \in call.reply.upstream :
                 /\ up.format = call.rq.output_format
                 /\ up.body = call.rq.body
                 /\ up.authorization
                      = <<"Bearer", IF call.rq.prod THEN call.rq.cookie
                                    ELSE call.rq.apiToken>>
           /\ ~call.rq.upstream.rejected
                 => call.reply.status = 200 /\ call.reply.hasStatusCode

\* C33: the proxy checks the credential first, then the body, then the presence
\* of the format, then its support: a request without credential is answered 401
\* whatever its body and format are, and of several validation errors the first
\* in this order is the one reported.
C33_CheckOrder ==
    ConvertCalled =>
        LET rq == call.rq
            reply == call.reply
        IN  /\ NoCredential(rq)
                 => /\ reply.status = 401
                    /\ reply.message = "You must be logged in to use this API."
            /\ (~NoCredential(rq) /\ rq.body = <<>>)
                 => /\ reply.status = 422
                    /\ reply.message
                         = "Please include the model as your fetch request body."
            /\ (~NoCredential(rq) /\ rq.body # <<>> /\ rq.output_format = None)
                 => /\ reply.status = 422
                    /\ reply.message = "Please include the output format in the URL."
            /\ (/\ ~NoCredential(rq) /\ rq.body # <<>> /\ rq.output_format # None
                /\ NotASupportedKey(rq.output_format))
                 => reply.status = 422 /\ reply.message = "Invalid output format."

\* C33 witness: a request without credential, with an empty body and an
\* unsupported format, has been answered 401.
C33_Witness ==
    /\ ConvertCalled /\ NoCredential(call.rq)
    /\ call.rq.body = <<>> /\ call.rq.output_format = "dxf"
    /\ call.reply.status = 401

\* C33 witness of the order of the validation: a request with a credential, an
\* empty body and an unsupported format has been answered with the error of the
\* body.
C33_WitnessBodyFirst ==
    /\ ConvertCalled /\ ~NoCredential(call.rq)
    /\ call.rq.body = <<>> /\ call.rq.output_format = "dxf"
    /\ call.reply.message = "Please include the model as your fetch request body."

\* a view request whose body is JSON without an id: null, or an object with no
\* id
NoId(rq) ==
    rq.json = "null" \/ (rq.json = "object" /\ rq.id = None)

ViewNoToken(rq) ==
    IF rq.mode = "production" THEN rq.cookie = None ELSE rq.apiToken = None

\* what the claim says of the answer `reply` to the view request rq
ViewAnswerAsClaimed(rq, reply) ==
    /\ NoId(rq) => reply.status = 422 /\ reply.upstream = {}
    /\ (rq.json = "object" /\ rq.id # None /\ ViewNoToken(rq))
         => reply.status = 401 /\ reply.upstream = {}
    /\ (rq.json = "object" /\ rq.id # None /\ ~ViewNoToken(rq))
         => /\ Cardinality(reply.upstream) = 1
            /\ \A up \in reply.upstream : up.id = rq.id
            /\ rq.upstream.json = "object"
                 => /\ reply.status = 200 /\ reply.hasBody
                    /\ reply.upstreamStatus = rq.upstream.status
                    /\ reply.data = rq.upstream.data

\* C34: the view proxy answers a request whose JSON body has no id with 422,
\* whatever the credential; one with an id and no token with 401; both without an
\* upstream request; and every other one with exactly one upstream request and,
\* the upstream body being parsed, with the upstream HTTP status in the status
\* field next to that body.
C34_ViewProxy ==
    call.fn = "view" => ViewAnswerAsClaimed(call.rq, call.reply)

====
